---------------------------- MODULE Spec2Model ----------------------------
(***************************************************************************)
(* Model of src/src/App.tsx: the App component's session state, its two    *)
(* asynchronous round trips (generateAIIdea, evaluateAIIdea), the          *)
(* credential handlers, and the response cleaning / parsing / validation   *)
(* code that both round trips run on the text the model gateway returns.   *)
(*                                                                         *)
(* Texts are sequences of tokens.  A token stands for a run of characters: *)
(*   F   the fence marker ```          J    the word json                  *)
(*   NL  one newline                   SP   one space                      *)
(*   X   a word of prose (no brace, no backtick, no whitespace)            *)
(*   LB  a lone {                      RB   a lone }                       *)
(*   O   a well-formed JSON object literal {...} (field o holds its value) *)
(*   BAD a brace-delimited literal that is not JSON, such as {a:1,}        *)
(* JavaScript values are strings tagged by their type ("str:a", "num:0",   *)
(* "bool:false", "null", "arr", and "undef" for a key that is absent).     *)
(* Strings shown to the user (error, debugInfo) and error messages are     *)
(* sequences of parts, so that String.prototype.includes is a membership   *)
(* test on the parts; the empty string is the empty sequence.              *)
(*                                                                         *)
(* Each handler runs to its next await as one step: JavaScript runs a      *)
(* continuation to completion before any other handler can run.            *)
(***************************************************************************)
EXTENDS Integers, Sequences, FiniteSets, TLC

VARIABLES
    currentIdea,      \* useState<Idea | null>(null)
    evaluation,       \* useState<Evaluation | null>(null)
    showEvaluation,   \* useState(false)
    apiKey,           \* useState('')
    tempApiKey,       \* useState('')
    showApiKeyInput,  \* useState(false)
    isGenerating,     \* useState(false)
    isEvaluating,     \* useState(false)
    error,            \* useState('')
    debugInfo,        \* useState('')
    savedApiKey,      \* localStorage['gemini-api-key'], <<>> when not stored
    inflight,         \* the round trips awaiting the gateway, in issue order
    evalOf,           \* history: the idea the held evaluation was computed for
    last,             \* history: the last handler step and what preceded it
    rawText,          \* parser harness: the text handed to the parser
    schema,           \* parser harness: "idea" or "evaluation"
    cleaned,          \* parser harness: cleanedText when the match is made
    parsed,           \* parser harness: the outcome, Null before parsing
    reparsed          \* parser harness: the outcome of parsing the outcome

vars == <<currentIdea, evaluation, showEvaluation, apiKey, tempApiKey,
          showApiKeyInput, isGenerating, isEvaluating, error, debugInfo,
          savedApiKey, inflight, evalOf, last, rawText, schema, cleaned,
          parsed, reparsed>>

sessionVars == <<currentIdea, evaluation, showEvaluation, apiKey, tempApiKey,
                 showApiKeyInput, isGenerating, isEvaluating, error, debugInfo,
                 savedApiKey, inflight, evalOf, last>>

parserVars == <<rawText, schema, cleaned, parsed, reparsed>>

-----------------------------------------------------------------------------
(* Bounds *)

MaxKeyLen == 1      \* longest credential string typed into the input
MaxNow == 1         \* Date.now() takes the values 1..MaxNow
MaxInFlight == 2    \* round trips awaiting the gateway at once (SpecHandler)
MaxTextLen == 4     \* longest arbitrary token sequence handed to the parser

-----------------------------------------------------------------------------
(* Values *)

Null == [null |-> TRUE]

IdeaFields == <<"title", "description", "category", "targetMarket",
                "problem", "solution">>

EvalFields == <<"marketSize", "competition", "feasibility", "profitability",
                "innovation", "timeToMarket", "overallScore", "strengths",
                "weaknesses", "recommendations", "marketAnalysis",
                "riskAssessment">>

Range(s) == {s[i] : i \in 1..Len(s)}

AllFields == Range(IdeaFields) \cup Range(EvalFields)

\* JavaScript truthiness of a value: undefined, null, '', 0 and false are falsy.
Falsy(v) == v \in {"undef", "null", "str:", "num:0", "bool:false"}

\* The values JSON.parse can give a key; "num:inf" is the Infinity it gives a
\* number literal too large for a double (1e999).
JsValues == {"undef", "null", "str:", "str:a", "str:b", "num:0", "num:4",
             "num:inf", "bool:false", "bool:true", "arr"}

\* A parsed JSON object: every key it does not carry reads as undefined.
EmptyObject == [f \in AllFields |-> "undef"]

Tok(t) == [t |-> t, o |-> EmptyObject]

Obj(o) == [t |-> "O", o |-> o]

-----------------------------------------------------------------------------
(* String.prototype.trim, on credential strings (sequences of characters)  *)
(* and on texts (sequences of tokens).                                     *)

SpaceChars == {" "}

SpaceToks == {Tok("NL"), Tok("SP")}

IsSpaceTok(c) == c \in SpaceToks

\* The sequence without its leading and trailing elements that are in spaces.
TrimWith(s, spaces) ==
    LET kept == {i \in 1..Len(s) : s[i] \notin spaces} IN
    IF kept = {} THEN <<>>
    ELSE SubSeq(s, CHOOSE i \in kept : \A j \in kept : i <= j,
                   CHOOSE i \in kept : \A j \in kept : j <= i)

Trim(s) == TrimWith(s, SpaceChars)

TrimText(text) == TrimWith(text, SpaceToks)

-----------------------------------------------------------------------------
(* Cleaning, matching, parsing and validating a response text              *)

Drop(s, n) == SubSeq(s, n + 1, Len(s))

\* .replace(/```json\n?/, '') and .replace(/```\n?/, '') on a text that starts
\* with the marker: the marker's n tokens go, and one newline after them.
RemoveOpeningFence(text, n) ==
    IF Len(text) > n /\ text[n + 1].t = "NL" THEN Drop(text, n + 1)
    ELSE Drop(text, n)

\* .replace(/\n?```$/, ''): a fence marker at the very end goes, and one
\* newline before it.
RemoveClosingFence(text) ==
    LET n == Len(text) IN
    IF n >= 1 /\ text[n].t = "F"
    THEN IF n >= 2 /\ text[n - 1].t = "NL" THEN SubSeq(text, 1, n - 2)
         ELSE SubSeq(text, 1, n - 1)
    ELSE text

StartsWithJsonFence(text) == Len(text) >= 2 /\ text[1].t = "F" /\ text[2].t = "J"

StartsWithFence(text) == Len(text) >= 1 /\ text[1].t = "F"

\* CleanText removing a closing marker whether or not the text opens with one.
CleanTextStrippingAnyClosing(text) ==
    LET cleanedText == TrimText(text) IN
    IF StartsWithJsonFence(cleanedText)
    THEN RemoveClosingFence(RemoveOpeningFence(cleanedText, 2))
    ELSE IF StartsWithFence(cleanedText)
    THEN RemoveClosingFence(RemoveOpeningFence(cleanedText, 1))
    ELSE RemoveClosingFence(cleanedText)

\* Lines 137-144 and 274-281: trim, then strip one fence pair.
CleanText(text) ==
    LET cleanedText == TrimText(text) IN
    IF StartsWithJsonFence(cleanedText)
    THEN RemoveClosingFence(RemoveOpeningFence(cleanedText, 2))
    ELSE IF StartsWithFence(cleanedText)
    THEN RemoveClosingFence(RemoveOpeningFence(cleanedText, 1))
    ELSE cleanedText

HasOpenBrace(c) == c.t \in {"LB", "O", "BAD"}

HasCloseBrace(c) == c.t \in {"RB", "O", "BAD"}

\* A lazy match, /\{[\s\S]*?\}/: from the first { to the first } after it.
JsonMatchFirstRegion(text) ==
    LET opens  == {i \in 1..Len(text) : HasOpenBrace(text[i])}
        closes == {i \in 1..Len(text) : HasCloseBrace(text[i])}
    IN  IF opens = {} \/ closes = {} THEN <<>>
        ELSE LET i == CHOOSE x \in opens : \A y \in opens : x <= y
                 after == {x \in closes : x >= i}
             IN  IF after = {} THEN <<>>
                 ELSE SubSeq(text, i, CHOOSE x \in after : \A y \in after : x <= y)

\* cleanedText.match(/\{[\s\S]*\}/): the span from the first { to the last }
\* after it; <<>> stands for the null of a failed match.
JsonMatch(text) ==
    LET opens  == {i \in 1..Len(text) : HasOpenBrace(text[i])}
        closes == {i \in 1..Len(text) : HasCloseBrace(text[i])}
    IN  IF opens = {} \/ closes = {} THEN <<>>
        ELSE LET i == CHOOSE x \in opens : \A y \in opens : x <= y
                 j == CHOOSE x \in closes : \A y \in closes : y <= x
             IN  IF j >= i THEN SubSeq(text, i, j) ELSE <<>>

\* JSON.parse of a text that starts with { and ends with }: whitespace between
\* tokens is skipped; the text is JSON when it is one object literal or {}.
JsonParse(span) ==
    LET body == SelectSeq(span, LAMBDA c : ~IsSpaceTok(c)) IN
    IF Len(body) = 1 /\ body[1].t = "O" THEN [ok |-> TRUE, value |-> body[1].o]
    ELSE IF Len(body) = 2 /\ body[1].t = "LB" /\ body[2].t = "RB"
    THEN [ok |-> TRUE, value |-> EmptyObject]
    ELSE [ok |-> FALSE, value |-> EmptyObject]

\* The first name of `fields` that is among the rejected ones, "" when none is.
FirstField(fields, rejected) ==
    LET hits == {i \in 1..Len(fields) : fields[i] \in rejected} IN
    IF hits = {} THEN ""
    ELSE fields[CHOOSE i \in hits : \A j \in hits : i <= j]

\* for (const field of requiredFields) if (!ideaData[field]) throw ...
MissingIdeaField(ideaData) ==
    FirstField(IdeaFields, {f \in AllFields : Falsy(ideaData[f])})

\* ... if (evaluationData[field] === undefined || evaluationData[field] === null)
MissingEvaluationField(evaluationData) ==
    FirstField(EvalFields,
               {f \in AllFields : evaluationData[f] \in {"undef", "null"}})

NewIdea(ideaData, now) ==
    [id           |-> now,
     title        |-> ideaData["title"],
     description  |-> ideaData["description"],
     category     |-> ideaData["category"],
     targetMarket |-> ideaData["targetMarket"],
     problem      |-> ideaData["problem"],
     solution     |-> ideaData["solution"]]

NewEvaluation(evaluationData) ==
    [marketSize      |-> evaluationData["marketSize"],
     competition     |-> evaluationData["competition"],
     feasibility     |-> evaluationData["feasibility"],
     profitability   |-> evaluationData["profitability"],
     innovation      |-> evaluationData["innovation"],
     timeToMarket    |-> evaluationData["timeToMarket"],
     overallScore    |-> evaluationData["overallScore"],
     strengths       |-> evaluationData["strengths"],
     weaknesses      |-> evaluationData["weaknesses"],
     recommendations |-> evaluationData["recommendations"],
     marketAnalysis  |-> evaluationData["marketAnalysis"],
     riskAssessment  |-> evaluationData["riskAssessment"]]

Returned(v) == [thrown |-> FALSE, value |-> v, message |-> <<>>]

Thrown(m) == [thrown |-> TRUE, value |-> Null, message |-> m]

\* ParseIdea reporting a span that is not JSON as no JSON found.
ParseIdeaMergingFailures(text, now) ==
    LET cleanedText == CleanText(text)
        jsonMatch   == JsonMatch(cleanedText)
        ideaData    == JsonParse(jsonMatch)
    IN  IF jsonMatch = <<>> \/ ~ideaData.ok
        THEN Thrown(<<"No valid JSON found in response: ", "cleanedText">>)
        ELSE IF MissingIdeaField(ideaData.value) # ""
        THEN Thrown(<<"Missing required field: ",
                      MissingIdeaField(ideaData.value)>>)
        ELSE Returned(NewIdea(ideaData.value, now))

\* Lines 136-170 of generateAIIdea: the new idea, or the Error thrown.
ParseIdea(text, now) ==
    LET cleanedText == CleanText(text)
        jsonMatch   == JsonMatch(cleanedText)
        ideaData    == JsonParse(jsonMatch)
    IN  IF jsonMatch = <<>>
        THEN Thrown(<<"No valid JSON found in response: ", "cleanedText">>)
        ELSE IF ~ideaData.ok THEN Thrown(<<"SyntaxError">>)
        ELSE IF MissingIdeaField(ideaData.value) # ""
        THEN Thrown(<<"Missing required field: ",
                      MissingIdeaField(ideaData.value)>>)
        ELSE Returned(NewIdea(ideaData.value, now))

\* Lines 273-312 of evaluateAIIdea: the new evaluation, or the Error thrown.
ParseEvaluation(text) ==
    LET cleanedText    == CleanText(text)
        jsonMatch      == JsonMatch(cleanedText)
        evaluationData == JsonParse(jsonMatch)
    IN  IF jsonMatch = <<>>
        THEN Thrown(<<"No valid JSON found in evaluation response: ",
                      "cleanedText">>)
        ELSE IF ~evaluationData.ok THEN Thrown(<<"SyntaxError">>)
        ELSE IF MissingEvaluationField(evaluationData.value) # ""
        THEN Thrown(<<"Missing required evaluation field: ",
                      MissingEvaluationField(evaluationData.value)>>)
        ELSE Returned(NewEvaluation(evaluationData.value))

-----------------------------------------------------------------------------
(* Error classification in the two catch blocks                            *)

Includes(message, part) == \E i \in 1..Len(message) : message[i] = part

\* message.replace(part, ''): the first occurrence goes.
Without(message, part) ==
    LET hits == {i \in 1..Len(message) : message[i] = part} IN
    IF hits = {} THEN message
    ELSE LET i == CHOOSE x \in hits : \A y \in hits : x <= y
         IN  SubSeq(message, 1, i - 1) \o SubSeq(message, i + 1, Len(message))

OrElse(message, fallback) == IF message = <<>> THEN <<fallback>> ELSE message

GenerateErrorMessage(message) ==
    <<"Failed to generate idea. ">> \o
    (IF Includes(message, "API_KEY_INVALID")
     THEN <<"Invalid API key. Please check your Gemini API key.">>
     ELSE IF Includes(message, "PERMISSION_DENIED")
     THEN <<"Permission denied. Please ensure your API key has the correct permissions.">>
     ELSE IF Includes(message, "QUOTA_EXCEEDED")
     THEN <<"API quota exceeded. Please check your usage limits.">>
     ELSE IF Includes(message, "Failed to fetch")
     THEN <<"Network error. Please check your internet connection.">>
     ELSE IF Includes(message, "API Connection Failed: ")
     THEN Without(message, "API Connection Failed: ")
     ELSE <<"Error: ">> \o OrElse(message, "Unknown error occurred"))

EvaluateErrorMessage(message) ==
    <<"Failed to evaluate idea. ">> \o
    (IF Includes(message, "API_KEY_INVALID")
     THEN <<"Invalid API key. Please check your Gemini API key.">>
     ELSE IF Includes(message, "PERMISSION_DENIED")
     THEN <<"Permission denied. Please ensure your API key has the correct permissions.">>
     ELSE IF Includes(message, "QUOTA_EXCEEDED")
     THEN <<"API quota exceeded. Please check your usage limits.">>
     ELSE IF Includes(message, "Failed to fetch")
     THEN <<"Network error. Please check your internet connection.">>
     ELSE <<"Error: ">> \o OrElse(message, "Unknown error occurred"))

-----------------------------------------------------------------------------
(* What the gateway and the user can supply                                *)

KeyChars == {" ", "k"}

Keys == UNION {[1..n -> KeyChars] : n \in 0..MaxKeyLen}

Times == 1..MaxNow

\* error.message of a failed gateway call; <<>> is an error without message.
GatewayMessages == {<<"API_KEY_INVALID">>, <<"Failed to fetch">>, <<>>}

IdeaObject(title) ==
    [f \in AllFields |-> IF f \in Range(IdeaFields)
                         THEN (IF f = "title" THEN title ELSE "str:a")
                         ELSE "undef"]

EvaluationObject ==
    [f \in AllFields |->
        IF f \in {"strengths", "weaknesses", "recommendations"} THEN "arr"
        ELSE IF f \in {"marketAnalysis", "riskAssessment"} THEN "str:a"
        ELSE IF f \in Range(EvalFields) THEN "num:4"
        ELSE "undef"]

\* Texts the gateway returns in the session model: a bare idea object, a
\* json-fenced idea object, an evaluation object in prose, prose without
\* JSON, and a brace-delimited text that is not JSON.
ResponseTexts ==
    {<<Obj(IdeaObject("str:a"))>>,
     <<Tok("F"), Tok("J"), Tok("NL"), Obj(IdeaObject("str:b")), Tok("NL"), Tok("F")>>,
     <<Tok("X"), Tok("SP"), Obj(EvaluationObject)>>,
     <<Tok("X")>>,
     <<Tok("BAD")>>}

\* What lines 136-170 make of each text the gateway can return, by timestamp.
IdeaFromResponse ==
    [text \in ResponseTexts, now \in Times |-> ParseIdea(text, now)]

\* What lines 273-312 make of each text the gateway can return.
EvaluationFromResponse == [text \in ResponseTexts |-> ParseEvaluation(text)]

-----------------------------------------------------------------------------
(* Session state                                                           *)

Event(name) == [ev |-> name, hadEvaluation |-> evaluation # Null]

\* A round trip awaiting the gateway: the call it awaits and the idea its
\* closure captured (read after the await by evaluateAIIdea's prompt only).
\* The credential it sent is not kept: the gateway's answer is any text or
\* any failure, whatever the credential.
RoundTrip(op, awaiting) ==
    [op |-> op, awaiting |-> awaiting,
     currentIdea |-> IF op = "evaluate" THEN currentIdea ELSE Null]

Remove(s, i) == SubSeq(s, 1, i - 1) \o SubSeq(s, i + 1, Len(s))

ParserIdle ==
    /\ rawText = <<>> /\ schema = "idea" /\ cleaned = <<>>
    /\ parsed = Null /\ reparsed = Null

\* The state after construction and the mount effect, which loads the key a
\* previous session stored (saveApiKey stores trimmed, non-empty keys only).
Init ==
    /\ savedApiKey \in {k \in Keys : Trim(k) = k}
    /\ apiKey = savedApiKey
    /\ currentIdea = Null
    /\ evaluation = Null
    /\ showEvaluation = FALSE
    /\ tempApiKey = <<>>
    /\ showApiKeyInput = FALSE
    /\ isGenerating = FALSE
    /\ isEvaluating = FALSE
    /\ error = <<>>
    /\ debugInfo = <<>>
    /\ inflight = <<>>
    /\ evalOf = Null
    /\ last = [ev |-> "mount", hadEvaluation |-> FALSE]
    /\ ParserIdle

\* generateAIIdea going to the idea request without testing the connection.
generateAIIdeaWithoutConnectionTest ==
    IF Trim(apiKey) = <<>>
    THEN /\ showApiKeyInput' = TRUE
         /\ last' = Event("generateBlocked")
         /\ UNCHANGED <<currentIdea, evaluation, showEvaluation, apiKey,
                        tempApiKey, isGenerating, isEvaluating, error,
                        debugInfo, savedApiKey, inflight, evalOf>>
    ELSE /\ isGenerating' = TRUE
         /\ error' = <<>>
         /\ debugInfo' = <<"Sending request to Gemini...">>
         /\ inflight' = Append(inflight, RoundTrip("generate", "generateContent"))
         /\ last' = Event("generateIssued")
         /\ UNCHANGED <<currentIdea, evaluation, showEvaluation, apiKey,
                        tempApiKey, showApiKeyInput, isEvaluating, savedApiKey,
                        evalOf>>

\* generateAIIdea, from the call to its first await (lines 83-96).
generateAIIdea ==
    IF Trim(apiKey) = <<>>
    THEN /\ showApiKeyInput' = TRUE
         /\ last' = Event("generateBlocked")
         /\ UNCHANGED <<currentIdea, evaluation, showEvaluation, apiKey,
                        tempApiKey, isGenerating, isEvaluating, error,
                        debugInfo, savedApiKey, inflight, evalOf>>
    ELSE /\ isGenerating' = TRUE
         /\ error' = <<>>
         /\ debugInfo' = <<"Testing API connection...">>
         /\ inflight' = Append(inflight, RoundTrip("generate", "testApiConnection"))
         /\ last' = Event("generateIssued")
         /\ UNCHANGED <<currentIdea, evaluation, showEvaluation, apiKey,
                        tempApiKey, showApiKeyInput, isEvaluating, savedApiKey,
                        evalOf>>

\* GenerateFailed without its finally block.
GenerateFailedLeavingFlag(i, message) ==
    /\ error' = GenerateErrorMessage(message)
    /\ debugInfo' = <<"Error details: ">> \o message
    /\ inflight' = Remove(inflight, i)
    /\ last' = Event("generateFailed")
    /\ UNCHANGED <<currentIdea, evaluation, showEvaluation, apiKey, tempApiKey,
                   showApiKeyInput, isGenerating, isEvaluating, savedApiKey,
                   evalOf>>

\* The catch and finally blocks of generateAIIdea (lines 177-205).
GenerateFailed(i, message) ==
    /\ error' = GenerateErrorMessage(message)
    /\ debugInfo' = <<"Error details: ">> \o message
    /\ isGenerating' = FALSE
    /\ inflight' = Remove(inflight, i)
    /\ last' = Event("generateFailed")
    /\ UNCHANGED <<currentIdea, evaluation, showEvaluation, apiKey, tempApiKey,
                   showApiKeyInput, isEvaluating, savedApiKey, evalOf>>

\* GenerateSucceeded without its setEvaluation(null).
GenerateSucceededKeepingEvaluation(i, newIdea) ==
    /\ currentIdea' = newIdea
    /\ showEvaluation' = FALSE
    /\ debugInfo' = <<"Idea generated successfully!">>
    /\ isGenerating' = FALSE
    /\ inflight' = Remove(inflight, i)
    /\ last' = Event("generateSucceeded")
    /\ UNCHANGED <<evaluation, evalOf, apiKey, tempApiKey, showApiKeyInput,
                   isEvaluating, error, savedApiKey>>

\* The end of the try block and the finally block (lines 172-175, 203-205).
GenerateSucceeded(i, newIdea) ==
    /\ currentIdea' = newIdea
    /\ showEvaluation' = FALSE
    /\ evaluation' = Null
    /\ evalOf' = Null
    /\ debugInfo' = <<"Idea generated successfully!">>
    /\ isGenerating' = FALSE
    /\ inflight' = Remove(inflight, i)
    /\ last' = Event("generateSucceeded")
    /\ UNCHANGED <<apiKey, tempApiKey, showApiKeyInput, isEvaluating, error,
                   savedApiKey>>

AwaitingAt(i, op, awaiting) ==
    /\ i \in 1..Len(inflight)
    /\ inflight[i].op = op
    /\ inflight[i].awaiting = awaiting

\* testApiConnection returned success: generateAIIdea runs on to its second
\* await, the idea request (lines 96-130).
TestConnectionSucceeds(i) ==
    /\ AwaitingAt(i, "generate", "testApiConnection")
    /\ debugInfo' = <<"Sending request to Gemini...">>
    /\ inflight' = [inflight EXCEPT ![i].awaiting = "generateContent"]
    /\ last' = Event("connectionTested")
    /\ UNCHANGED <<currentIdea, evaluation, showEvaluation, apiKey, tempApiKey,
                   showApiKeyInput, isGenerating, isEvaluating, error,
                   savedApiKey, evalOf>>

\* testApiConnection caught the gateway's error (lines 68-79, 98-101).
TestConnectionFails(i, message) ==
    /\ AwaitingAt(i, "generate", "testApiConnection")
    /\ GenerateFailed(i, <<"API Connection Failed: ">>
                          \o OrElse(message, "Unknown error"))

\* The idea request returned a text (lines 130-175).
GenerateResponds(i, text, now) ==
    /\ AwaitingAt(i, "generate", "generateContent")
    /\ currentIdea # Null => now >= currentIdea.id
    /\ \E r \in {IdeaFromResponse[text, now]} :
         IF r.thrown THEN GenerateFailed(i, r.message)
         ELSE GenerateSucceeded(i, r.value)

\* The idea request failed in the gateway (line 130 throws).
GenerateCallFails(i, message) ==
    /\ AwaitingAt(i, "generate", "generateContent")
    /\ GenerateFailed(i, message)

\* EvaluateIssued without its setError('').
EvaluateIssuedKeepingError ==
    /\ isEvaluating' = TRUE
    /\ debugInfo' = <<"Sending evaluation request to Gemini...">>
    /\ inflight' = Append(inflight, RoundTrip("evaluate", "generateContent"))
    /\ last' = Event("evaluateIssued")
    /\ UNCHANGED <<currentIdea, evaluation, showEvaluation, apiKey, tempApiKey,
                   showApiKeyInput, isGenerating, error, savedApiKey, evalOf>>

\* evaluateAIIdea past its guard, up to its await (lines 213-267).
EvaluateIssued ==
    /\ isEvaluating' = TRUE
    /\ error' = <<>>
    /\ debugInfo' = <<"Sending evaluation request to Gemini...">>
    /\ inflight' = Append(inflight, RoundTrip("evaluate", "generateContent"))
    /\ last' = Event("evaluateIssued")
    /\ UNCHANGED <<currentIdea, evaluation, showEvaluation, apiKey, tempApiKey,
                   showApiKeyInput, isGenerating, savedApiKey, evalOf>>

EvaluateBlocked ==
    /\ last' = Event("evaluateBlocked")
    /\ UNCHANGED <<currentIdea, evaluation, showEvaluation, apiKey, tempApiKey,
                   showApiKeyInput, isGenerating, isEvaluating, error,
                   debugInfo, savedApiKey, inflight, evalOf>>

\* evaluateAIIdea guarding on the idea alone.
evaluateAIIdeaWithoutKeyCheck ==
    IF currentIdea = Null THEN EvaluateBlocked ELSE EvaluateIssued

\* evaluateAIIdea guarding on the credential alone.
evaluateAIIdeaWithoutIdeaCheck ==
    IF Trim(apiKey) = <<>> THEN EvaluateBlocked ELSE EvaluateIssued

\* evaluateAIIdea, from the call to its await (lines 208-267).
evaluateAIIdea ==
    IF currentIdea = Null \/ Trim(apiKey) = <<>> THEN EvaluateBlocked
    ELSE EvaluateIssued

\* EvaluateFailed resetting the evaluation it could not replace.
EvaluateFailedClearingEvaluation(i, message) ==
    /\ error' = EvaluateErrorMessage(message)
    /\ debugInfo' = <<"Evaluation error details: ">> \o message
    /\ isEvaluating' = FALSE
    /\ evaluation' = Null
    /\ showEvaluation' = FALSE
    /\ evalOf' = Null
    /\ inflight' = Remove(inflight, i)
    /\ last' = Event("evaluateFailed")
    /\ UNCHANGED <<currentIdea, apiKey, tempApiKey, showApiKeyInput,
                   isGenerating, savedApiKey>>

\* The catch and finally blocks of evaluateAIIdea (lines 318-344).
EvaluateFailed(i, message) ==
    /\ error' = EvaluateErrorMessage(message)
    /\ debugInfo' = <<"Evaluation error details: ">> \o message
    /\ isEvaluating' = FALSE
    /\ inflight' = Remove(inflight, i)
    /\ last' = Event("evaluateFailed")
    /\ UNCHANGED <<currentIdea, evaluation, showEvaluation, apiKey, tempApiKey,
                   showApiKeyInput, isGenerating, savedApiKey, evalOf>>

\* EvaluateSucceeded without its setShowEvaluation(true).
EvaluateSucceededNotShowing(i, newEvaluation) ==
    /\ evaluation' = newEvaluation
    /\ evalOf' = inflight[i].currentIdea
    /\ debugInfo' = <<"AI evaluation completed successfully!">>
    /\ isEvaluating' = FALSE
    /\ inflight' = Remove(inflight, i)
    /\ last' = Event("evaluateSucceeded")
    /\ UNCHANGED <<currentIdea, showEvaluation, apiKey, tempApiKey,
                   showApiKeyInput, isGenerating, error, savedApiKey>>

\* The end of the try block and the finally block (lines 314-316, 342-344).
EvaluateSucceeded(i, newEvaluation) ==
    /\ evaluation' = newEvaluation
    /\ showEvaluation' = TRUE
    /\ evalOf' = inflight[i].currentIdea
    /\ debugInfo' = <<"AI evaluation completed successfully!">>
    /\ isEvaluating' = FALSE
    /\ inflight' = Remove(inflight, i)
    /\ last' = Event("evaluateSucceeded")
    /\ UNCHANGED <<currentIdea, apiKey, tempApiKey, showApiKeyInput,
                   isGenerating, error, savedApiKey>>

\* The evaluation request returned a text (lines 267-316).
EvaluateResponds(i, text) ==
    /\ AwaitingAt(i, "evaluate", "generateContent")
    /\ \E r \in {EvaluationFromResponse[text]} :
         IF r.thrown THEN EvaluateFailed(i, r.message)
         ELSE EvaluateSucceeded(i, r.value)

\* The evaluation request failed in the gateway (line 267 throws).
EvaluateCallFails(i, message) ==
    /\ AwaitingAt(i, "evaluate", "generateContent")
    /\ EvaluateFailed(i, message)

\* saveApiKey abandoning the round trips made with the replaced credential.
saveApiKeyCancelling ==
    /\ last' = Event("saveApiKey")
    /\ IF Trim(tempApiKey) # <<>>
       THEN /\ apiKey' = Trim(tempApiKey)
            /\ savedApiKey' = Trim(tempApiKey)
            /\ showApiKeyInput' = FALSE
            /\ error' = <<>>
            /\ debugInfo' = <<>>
            /\ inflight' = <<>>
            /\ UNCHANGED <<currentIdea, evaluation, showEvaluation, tempApiKey,
                           isGenerating, isEvaluating, evalOf>>
       ELSE UNCHANGED <<currentIdea, evaluation, showEvaluation, apiKey,
                        tempApiKey, showApiKeyInput, isGenerating,
                        isEvaluating, error, debugInfo, savedApiKey, inflight,
                        evalOf>>

\* saveApiKey (lines 347-355).
saveApiKey ==
    /\ last' = Event("saveApiKey")
    /\ IF Trim(tempApiKey) # <<>>
       THEN /\ apiKey' = Trim(tempApiKey)
            /\ savedApiKey' = Trim(tempApiKey)
            /\ showApiKeyInput' = FALSE
            /\ error' = <<>>
            /\ debugInfo' = <<>>
            /\ UNCHANGED <<currentIdea, evaluation, showEvaluation, tempApiKey,
                           isGenerating, isEvaluating, inflight, evalOf>>
       ELSE UNCHANGED <<currentIdea, evaluation, showEvaluation, apiKey,
                        tempApiKey, showApiKeyInput, isGenerating,
                        isEvaluating, error, debugInfo, savedApiKey, inflight,
                        evalOf>>

\* clearApiKey resetting the session's idea along with the credential.
clearApiKeyDroppingIdea ==
    /\ apiKey' = <<>>
    /\ tempApiKey' = <<>>
    /\ savedApiKey' = <<>>
    /\ error' = <<>>
    /\ debugInfo' = <<>>
    /\ currentIdea' = Null
    /\ last' = Event("clearApiKey")
    /\ UNCHANGED <<evaluation, showEvaluation, showApiKeyInput,
                   isGenerating, isEvaluating, inflight, evalOf>>

\* clearApiKey (lines 357-363).
clearApiKey ==
    /\ apiKey' = <<>>
    /\ tempApiKey' = <<>>
    /\ savedApiKey' = <<>>
    /\ error' = <<>>
    /\ debugInfo' = <<>>
    /\ last' = Event("clearApiKey")
    /\ UNCHANGED <<currentIdea, evaluation, showEvaluation, showApiKeyInput,
                   isGenerating, isEvaluating, inflight, evalOf>>

-----------------------------------------------------------------------------
(* The rendered controls                                                   *)

\* The status badge of the header (line 416).
ApiKeyStatus == IF apiKey # <<>> THEN "Gemini AI Connected" ELSE "API Key Required"

\* The Configure button (lines 422-425).
ClickConfigure ==
    /\ tempApiKey' = apiKey
    /\ showApiKeyInput' = TRUE
    /\ last' = Event("configure")
    /\ UNCHANGED <<currentIdea, evaluation, showEvaluation, apiKey,
                   isGenerating, isEvaluating, error, debugInfo, savedApiKey,
                   inflight, evalOf>>

\* setTempApiKey(e.target.value) (line 474).
setTempApiKey(k) ==
    /\ tempApiKey' = k
    /\ last' = Event("setTempApiKey")
    /\ UNCHANGED <<currentIdea, evaluation, showEvaluation, apiKey,
                   showApiKeyInput, isGenerating, isEvaluating, error,
                   debugInfo, savedApiKey, inflight, evalOf>>

\* The key input of the configuration panel (lines 436, 473-474).
TypeApiKey(k) == showApiKeyInput /\ setTempApiKey(k)

\* The Save & Connect button (lines 436, 489-490).
ClickSave == showApiKeyInput /\ Trim(tempApiKey) # <<>> /\ saveApiKey

\* The Cancel button (lines 436, 498).
ClickCancel ==
    /\ showApiKeyInput
    /\ showApiKeyInput' = FALSE
    /\ last' = Event("cancel")
    /\ UNCHANGED <<currentIdea, evaluation, showEvaluation, apiKey, tempApiKey,
                   isGenerating, isEvaluating, error, debugInfo, savedApiKey,
                   inflight, evalOf>>

\* The Clear Saved API Key button (lines 436, 505-509).
ClickClear == showApiKeyInput /\ apiKey # <<>> /\ clearApiKey

\* The Generate button (lines 572-573).
ClickGenerate == ~isGenerating /\ generateAIIdea

\* The Evaluate button (lines 610, 665-666).
ClickEvaluate == currentIdea # Null /\ ~isEvaluating /\ evaluateAIIdea

\* The gateway answers a call of a generation round trip.
GenerateGatewayStep ==
    \E i \in 1..Len(inflight) :
        \/ TestConnectionSucceeds(i)
        \/ \E m \in GatewayMessages : TestConnectionFails(i, m)
        \/ \E text \in ResponseTexts, now \in Times : GenerateResponds(i, text, now)
        \/ \E m \in GatewayMessages : GenerateCallFails(i, m)

\* The gateway answers the call of an evaluation round trip.
EvaluateGatewayStep ==
    \E i \in 1..Len(inflight) :
        \/ \E text \in ResponseTexts : EvaluateResponds(i, text)
        \/ \E m \in GatewayMessages : EvaluateCallFails(i, m)

GenerateStep == GenerateGatewayStep /\ UNCHANGED parserVars

EvaluateStep == EvaluateGatewayStep /\ UNCHANGED parserVars

\* The application as the user drives it, through the rendered controls.
Next ==
    \/ (ClickConfigure /\ UNCHANGED parserVars)
    \/ (\E k \in Keys : TypeApiKey(k) /\ UNCHANGED parserVars)
    \/ (ClickSave /\ UNCHANGED parserVars)
    \/ (ClickCancel /\ UNCHANGED parserVars)
    \/ (ClickClear /\ UNCHANGED parserVars)
    \/ (ClickGenerate /\ UNCHANGED parserVars)
    \/ (ClickEvaluate /\ UNCHANGED parserVars)
    \/ GenerateStep
    \/ EvaluateStep

Spec == Init /\ [][Next]_vars

\* The gateway answers every call, with a text or with a failure.
LiveSpec == Spec /\ WF_vars(GenerateStep) /\ WF_vars(EvaluateStep)

\* The two request handlers called directly, whatever the controls show,
\* with the stored credential present or cleared.
NextHandler ==
    \/ (Len(inflight) < MaxInFlight /\ generateAIIdea /\ UNCHANGED parserVars)
    \/ (Len(inflight) < MaxInFlight /\ evaluateAIIdea /\ UNCHANGED parserVars)
    \/ (clearApiKey /\ UNCHANGED parserVars)
    \/ GenerateStep
    \/ EvaluateStep

SpecHandler == Init /\ [][NextHandler]_vars

-----------------------------------------------------------------------------
(* The parsing code on its own, over bounded texts                         *)

\* A copy of an object with the fields f and g holding v and w.
With(o, f, v, g, w) == [o EXCEPT ![f] = v, ![g] = w]

\* Objects that differ from a complete one in at most two required fields.
IdeaObjects ==
    {With(IdeaObject("str:b"), f, v, g, w) :
        f \in Range(IdeaFields), g \in Range(IdeaFields),
        v \in JsValues, w \in JsValues}

EvaluationObjects ==
    {With(EvaluationObject, f, v, g, w) :
        f \in Range(EvalFields), g \in Range(EvalFields),
        v \in JsValues, w \in JsValues}

TextTokens ==
    {Tok(t) : t \in {"F", "J", "NL", "SP", "X", "LB", "RB", "BAD"}}
    \cup {Obj(IdeaObject("str:a")), Obj(EvaluationObject)}

ParserTexts ==
    UNION {[1..n -> TextTokens] : n \in 0..MaxTextLen}
    \cup {<<Obj(o)>> : o \in IdeaObjects \cup EvaluationObjects}

SessionIdle ==
    /\ currentIdea = Null /\ evaluation = Null /\ showEvaluation = FALSE
    /\ apiKey = <<>> /\ tempApiKey = <<>> /\ showApiKeyInput = FALSE
    /\ isGenerating = FALSE /\ isEvaluating = FALSE
    /\ error = <<>> /\ debugInfo = <<>> /\ savedApiKey = <<>>
    /\ inflight = <<>> /\ evalOf = Null
    /\ last = [ev |-> "mount", hadEvaluation |-> FALSE]

InitParse ==
    /\ rawText \in ParserTexts
    /\ schema \in {"idea", "evaluation"}
    /\ cleaned = <<>>
    /\ parsed = Null
    /\ reparsed = Null
    /\ SessionIdle

\* Lines 136-170 with the idea schema, lines 273-312 with the evaluation one.
Parse ==
    /\ parsed = Null
    /\ \E now \in Times :
         parsed' = IF schema = "idea" THEN ParseIdea(rawText, now)
                   ELSE ParseEvaluation(rawText)
    /\ cleaned' = CleanText(rawText)
    /\ UNCHANGED <<rawText, schema, reparsed>>
    /\ UNCHANGED sessionVars

\* JSON.stringify of one value: a number that is not finite is written null.
StringifyValue(v) == IF v = "num:inf" THEN "null" ELSE v

\* JSON.stringify of a record the parser returned: one object literal with
\* the record's keys, a key holding undefined left out.  The id key of an
\* idea is written too; no step of the parser reads it.
Stringify(value) ==
    <<Obj([f \in AllFields |->
              IF f \in DOMAIN value THEN StringifyValue(value[f])
              ELSE "undef"])>>

\* The same lines applied to the serialized record of a successful parse.
Reparse ==
    /\ parsed # Null
    /\ ~parsed.thrown
    /\ reparsed = Null
    /\ \E now \in Times :
         reparsed' = IF schema = "idea"
                     THEN ParseIdea(Stringify(parsed.value), now)
                     ELSE ParseEvaluation(Stringify(parsed.value))
    /\ UNCHANGED <<rawText, schema, cleaned, parsed>>
    /\ UNCHANGED sessionVars

NextParse == Parse \/ Reparse

SpecParse == InitParse /\ [][NextParse]_vars

-----------------------------------------------------------------------------
(* Properties                                                              *)

\* C1: in the state right after a generation round trip completed with
\* success, the evaluation slot is absent (and the panel flag is off),
\* whatever evaluation was held before.
C1_GenerationClearsEvaluation ==
    last.ev = "generateSucceeded" => evaluation = Null /\ ~showEvaluation

\* Idea A generated, evaluated, idea B generated: the evaluation is gone.
C1_Witness ==
    /\ last.ev = "generateSucceeded"
    /\ last.hadEvaluation
    /\ evaluation = Null
    /\ currentIdea # Null

\* C2: a held evaluation was computed for the idea that the idea slot holds
\* now, under every interleaving of the two round trips.
C2_EvaluationOfCurrentIdea == evaluation # Null => evalOf = currentIdea

A_RequestedIdea == last'.ev \in {"generateIssued", "generateBlocked"}

A_RequestedEvaluation == last'.ev \in {"evaluateIssued", "evaluateBlocked"}

\* C3: a request handler called while its own in-flight flag is set makes no
\* transition: no second round trip starts and no slot changes.
C3_NoReentrantRequest ==
    [][/\ (isGenerating /\ A_RequestedIdea) =>
             UNCHANGED <<inflight, currentIdea, evaluation, isGenerating,
                         isEvaluating, error, debugInfo>>
       /\ (isEvaluating /\ A_RequestedEvaluation) =>
             UNCHANGED <<inflight, currentIdea, evaluation, isGenerating,
                         isEvaluating, error, debugInfo>>]_vars

\* C4: every issued round trip clears its in-flight flag, whatever way it
\* ends: a set flag leads to a cleared one, and the state right after a
\* completion (success or any failure) has the flag of its round trip cleared.
C4_FlagEventuallyCleared ==
    /\ isGenerating ~> ~isGenerating
    /\ isEvaluating ~> ~isEvaluating
    /\ [](last.ev \in {"generateSucceeded", "generateFailed"} => ~isGenerating)
    /\ [](last.ev \in {"evaluateSucceeded", "evaluateFailed"} => ~isEvaluating)

\* A generation that failed on a missing field has cleared its flag.
C4_Witness ==
    /\ last.ev = "generateFailed"
    /\ Includes(error, "Missing required field: ")
    /\ ~isGenerating

\* C5: a round trip that fails, at whatever step, sets a non-empty error
\* message, clears its own in-flight flag, and leaves the idea and the
\* evaluation as they were.
C5_FailureKeepsSlots ==
    [][/\ last'.ev = "generateFailed" =>
             /\ error' # <<>>
             /\ ~isGenerating'
             /\ UNCHANGED <<currentIdea, evaluation>>
       /\ last'.ev = "evaluateFailed" =>
             /\ error' # <<>>
             /\ ~isEvaluating'
             /\ UNCHANGED <<currentIdea, evaluation>>]_vars

\* An evaluation failed while an idea and an earlier evaluation were held.
C5_Witness ==
    /\ last.ev = "evaluateFailed"
    /\ last.hadEvaluation
    /\ evaluation # Null
    /\ currentIdea # Null
    /\ error # <<>>
    /\ ~isEvaluating

C7_OneRoundTripAtATime == ~(isGenerating /\ isEvaluating)

\* C8: an evaluation is held only while an idea is held; a request for an
\* evaluation without an idea starts no round trip and changes no slot.
C8_EvaluationNeedsIdea ==
    [][/\ evaluation' # Null => currentIdea' # Null
       /\ (currentIdea = Null /\ A_RequestedEvaluation) =>
             UNCHANGED <<inflight, currentIdea, evaluation, showEvaluation,
                         isGenerating, isEvaluating, error, debugInfo>>]_vars

\* The handler was called with a credential and no idea.
C8_Witness ==
    /\ last.ev = "evaluateBlocked"
    /\ currentIdea = Null
    /\ evaluation = Null
    /\ Trim(apiKey) # <<>>
    /\ inflight = <<>>

RequiredFields == IF schema = "idea" THEN IdeaFields ELSE EvalFields

\* C9: for both schemas the required-field check fails exactly when a
\* required key is absent or null, naming the first such field; a required
\* key holding any other value ('' , 0 and false included) is accepted.
C9_RequiredFieldCheck ==
    parsed # Null =>
        LET jsonMatch == JsonMatch(CleanText(rawText))
            data      == JsonParse(jsonMatch)
            missing   == FirstField(RequiredFields,
                             {f \in AllFields : data.value[f] \in {"undef", "null"}})
        IN  (jsonMatch # <<>> /\ data.ok) =>
                IF missing = "" THEN ~parsed.thrown
                ELSE /\ parsed.thrown
                     /\ Len(parsed.message) = 2
                     /\ parsed.message[2] = missing

IsProse(c) == c.t \in {"X", "SP", "NL", "LB", "RB"}

\* An object literal, bare or wrapped in a json fence or a generic fence.
Fenced(o) ==
    {<<Obj(o)>>} \cup
    {open \o <<Obj(o)>> \o close :
        open \in {<<Tok("F"), Tok("J")>>, <<Tok("F"), Tok("J"), Tok("NL")>>,
                  <<Tok("F")>>, <<Tok("F"), Tok("NL")>>},
        close \in {<<Tok("F")>>, <<Tok("NL"), Tok("F")>>}}

\* The text is the object o, fenced or not, with prose before and after it.
Embeds(text, o) ==
    \E a \in 0..Len(text), b \in 0..Len(text) :
        /\ a < b
        /\ SubSeq(text, a + 1, b) \in Fenced(o)
        /\ \A i \in (1..a) \cup ((b + 1)..Len(text)) : IsProse(text[i])

CarriesAll(o, fields) ==
    \A i \in 1..Len(fields) : o[fields[i]] \notin {"undef", "null"}

\* C10: a well-formed JSON object that carries every required field, fenced
\* or not, within arbitrary prose, parses to a record with its field values.
C10_EmbeddedObjectParses ==
    parsed # Null =>
        \A k \in 1..Len(rawText) :
            (/\ rawText[k].t = "O"
             /\ CarriesAll(rawText[k].o, RequiredFields)
             /\ Embeds(rawText, rawText[k].o)) =>
                /\ ~parsed.thrown
                /\ \A i \in 1..Len(RequiredFields) :
                      parsed.value[RequiredFields[i]]
                          = rawText[k].o[RequiredFields[i]]

\* C11: an idea, once held, is never absent again, and the idea slot changes
\* only in the step that completes a generation with success: a failed
\* generation, the issue, success and failure of an evaluation, and saving or
\* clearing the credential leave it as it was.
C11_IdeaOnlyReplacedByGeneration ==
    [][/\ currentIdea # Null => currentIdea' # Null
       /\ currentIdea' # currentIdea => last'.ev = "generateSucceeded"
       /\ last'.ev \in {"generateFailed", "evaluateIssued", "evaluateSucceeded",
                        "evaluateFailed", "saveApiKey", "clearApiKey"} =>
             UNCHANGED currentIdea]_vars

\* The credential was cleared while an idea and its evaluation were held.
C11_Witness ==
    /\ last.ev = "clearApiKey"
    /\ currentIdea # Null
    /\ evaluation # Null
    /\ apiKey = <<>>

\* The fields of the record a successful parse returns, the id of an idea
\* left aside.
SchemaFields == IF schema = "idea" THEN Range(IdeaFields) ELSE Range(EvalFields)

\* C12: parsing is idempotent on its own output: when parsing succeeded with
\* a record, the JSON serialization of that record parses again, with the
\* same required fields, to a record equal to it on every schema field.
C12_ParseIdempotent ==
    reparsed # Null =>
        /\ ~reparsed.thrown
        /\ \A f \in SchemaFields : reparsed.value[f] = parsed.value[f]

\* C13: the text handed to JSON.parse is the span of the unfenced text from
\* its first { to its last }: the outcome is that of parsing this span, and
\* a text with two separate brace-delimited regions is parsed as the whole
\* outer span (a syntax error), never as one of its regions alone.
C13_OuterSpanParsed ==
    parsed # Null =>
        LET text    == CleanText(rawText)
            opens   == {i \in 1..Len(text) : HasOpenBrace(text[i])}
            closes  == {i \in 1..Len(text) : HasCloseBrace(text[i])}
            regions == {i \in 1..Len(text) : text[i].t \in {"O", "BAD"}}
        IN  /\ \A i \in opens, j \in closes :
                  (/\ \A k \in opens : i <= k
                   /\ \A k \in closes : k <= j
                   /\ i <= j) =>
                      LET data == JsonParse(SubSeq(text, i, j)) IN
                      /\ ~data.ok =>
                            parsed.thrown /\ parsed.message = <<"SyntaxError">>
                      /\ ~parsed.thrown =>
                            /\ data.ok
                            /\ \A f \in SchemaFields :
                                  parsed.value[f] = data.value[f]
            /\ Cardinality(regions) >= 2 =>
                  parsed.thrown /\ parsed.message = <<"SyntaxError">>

\* Two complete object literals with prose between them were parsed.
C13_Witness ==
    /\ parsed # Null
    /\ Len(rawText) = 3
    /\ rawText[1] = Obj(IdeaObject("str:a"))
    /\ rawText[2] = Tok("X")
    /\ rawText[3] = Obj(EvaluationObject)
    /\ schema = "idea"
    /\ parsed.message = <<"SyntaxError">>

NoJsonFound(r) ==
    /\ r.thrown
    /\ Len(r.message) = 2
    /\ r.message[1] \in {"No valid JSON found in response: ",
                         "No valid JSON found in evaluation response: "}

MalformedJson(r) == r.thrown /\ r.message = <<"SyntaxError">>

MissingField(r) ==
    /\ r.thrown
    /\ Len(r.message) = 2
    /\ r.message[1] \in {"Missing required field: ",
                         "Missing required evaluation field: "}

\* C14: the parser's outcome is classified step by step: no JSON found
\* exactly when the unfenced text has no { with a } after it; malformed JSON
\* exactly when it has one and the span is not JSON; a missing field only
\* when the span parsed; a success only when the span was found, parsed and
\* passed the field check; and every text gets exactly one of the four.
C14_OutcomeByStep ==
    parsed # Null =>
        LET text    == CleanText(rawText)
            hasSpan == \E i \in 1..Len(text), j \in 1..Len(text) :
                           i <= j /\ HasOpenBrace(text[i]) /\ HasCloseBrace(text[j])
            data    == JsonParse(JsonMatch(text))
            missing == IF schema = "idea" THEN MissingIdeaField(data.value)
                       ELSE MissingEvaluationField(data.value)
            kinds   == {k \in 1..4 :
                           \/ k = 1 /\ NoJsonFound(parsed)
                           \/ k = 2 /\ MalformedJson(parsed)
                           \/ k = 3 /\ MissingField(parsed)
                           \/ k = 4 /\ ~parsed.thrown}
        IN  /\ NoJsonFound(parsed) <=> ~hasSpan
            /\ MalformedJson(parsed) <=> (hasSpan /\ ~data.ok)
            /\ MissingField(parsed) => (hasSpan /\ data.ok)
            /\ ~parsed.thrown => (hasSpan /\ data.ok /\ missing = "")
            /\ Cardinality(kinds) = 1

\* A span that is not JSON and carries no field: the outcome is the syntax
\* error, not the missing field.
C14_Witness ==
    /\ parsed # Null
    /\ rawText = <<Tok("X"), Tok("LB"), Tok("X"), Tok("RB")>>
    /\ MalformedJson(parsed)

\* C15: a request made with its preconditions holding (a credential; for an
\* evaluation an idea as well) is issued, and the issue step sets the
\* operation's in-flight flag, empties the error, for a generation leaves a
\* non-empty progress marker in the diagnostic slot, starts the round trip,
\* and leaves the idea and the evaluation as they were.
C15_IssueStep ==
    [][/\ (Trim(apiKey) # <<>> /\ A_RequestedIdea) =>
             /\ last'.ev = "generateIssued"
             /\ isGenerating'
             /\ error' = <<>>
             /\ debugInfo' # <<>>
             /\ Len(inflight') = Len(inflight) + 1
             /\ inflight'[Len(inflight')].op = "generate"
             /\ UNCHANGED <<currentIdea, evaluation>>
       /\ (Trim(apiKey) # <<>> /\ currentIdea # Null /\ A_RequestedEvaluation) =>
             /\ last'.ev = "evaluateIssued"
             /\ isEvaluating'
             /\ error' = <<>>
             /\ Len(inflight') = Len(inflight) + 1
             /\ inflight'[Len(inflight')].op = "evaluate"
             /\ UNCHANGED <<currentIdea, evaluation>>]_vars

\* An evaluation was issued while an idea and an earlier evaluation were
\* held: its flag is set, the error is empty, the round trip awaits.
C15_Witness ==
    /\ last.ev = "evaluateIssued"
    /\ last.hadEvaluation
    /\ evaluation # Null
    /\ currentIdea # Null
    /\ isEvaluating
    /\ error = <<>>
    /\ \E i \in 1..Len(inflight) : inflight[i].op = "evaluate"

\* The text without its first n tokens and without a fence marker at its
\* very end, every other token kept.
StripMarkers(text, n) ==
    LET inner == SubSeq(text, n + 1, Len(text)) IN
    IF Len(inner) >= 1 /\ inner[Len(inner)].t = "F"
    THEN SubSeq(inner, 1, Len(inner) - 1)
    ELSE inner

\* The same, a newline next to a removed marker going with it.
StripMarkerLines(text, n) ==
    LET a     == IF Len(text) > n /\ text[n + 1].t = "NL" THEN n + 1 ELSE n
        inner == SubSeq(text, a + 1, Len(text))
        m     == Len(inner)
    IN  IF m >= 1 /\ inner[m].t = "F"
        THEN SubSeq(inner, 1, IF m >= 2 /\ inner[m - 1].t = "NL" THEN m - 2
                                                                ELSE m - 1)
        ELSE inner

\* C16 as stated: a trimmed text that opens with ```json loses that marker
\* and a closing ``` at its very end, one that opens with ``` loses that
\* marker and a closing ``` at its very end, any other text is unchanged, and
\* every character between the removed markers is kept.
C16_FenceStripKeepsInside ==
    parsed # Null =>
        LET text == TrimText(rawText) IN
        cleaned = IF StartsWithJsonFence(text) THEN StripMarkers(text, 2)
                  ELSE IF StartsWithFence(text) THEN StripMarkers(text, 1)
                  ELSE text

\* C16, amended: as above, except that one newline directly after the
\* opening marker and one newline directly before the closing marker are
\* removed with the markers; every other character between them is kept.
C16_FenceStripKeepsInsideButNewlines ==
    parsed # Null =>
        LET text == TrimText(rawText) IN
        cleaned = IF StartsWithJsonFence(text) THEN StripMarkerLines(text, 2)
                  ELSE IF StartsWithFence(text) THEN StripMarkerLines(text, 1)
                  ELSE text

\* A fenced object with a newline after the opening marker: the marker, the
\* newline and the closing marker are gone, the object is left.
C16_Witness ==
    /\ parsed # Null
    /\ rawText = <<Tok("F"), Tok("NL"), Obj(IdeaObject("str:a")), Tok("F")>>
    /\ cleaned = <<Obj(IdeaObject("str:a"))>>

Completions ==
    {"generateSucceeded", "generateFailed", "evaluateSucceeded", "evaluateFailed"}

InFlight(op) == \E i \in 1..Len(inflight) : inflight[i].op = op

\* C17: a round trip in flight is never cancelled.  It leaves the in-flight
\* set only by its one completion step, success or failure; saving or
\* clearing the credential leaves it in flight; and it does complete, the
\* completion writing the slots (idea or evaluation, error, in-flight flag)
\* whatever became of the credential meanwhile.
C17_NeverCancelled ==
    /\ [][/\ last'.ev \in {"saveApiKey", "clearApiKey"} =>
                UNCHANGED <<inflight, isGenerating, isEvaluating>>
          /\ Len(inflight') < Len(inflight) =>
                /\ Len(inflight') = Len(inflight) - 1
                /\ last'.ev \in Completions
          /\ last'.ev \in Completions => Len(inflight') = Len(inflight) - 1
          /\ last'.ev = "generateSucceeded" =>
                currentIdea' # Null /\ ~isGenerating'
          /\ last'.ev = "generateFailed" => error' # <<>> /\ ~isGenerating'
          /\ last'.ev = "evaluateSucceeded" =>
                evaluation' # Null /\ ~isEvaluating'
          /\ last'.ev = "evaluateFailed" =>
                error' # <<>> /\ ~isEvaluating']_vars
    /\ InFlight("generate") ~> ~InFlight("generate")
    /\ InFlight("evaluate") ~> ~InFlight("evaluate")

\* A generation completed with success after the credential it was issued
\* with was cleared: the idea is held, the flag is cleared.
C17_Witness ==
    /\ last.ev = "generateSucceeded"
    /\ apiKey = <<>>
    /\ savedApiKey = <<>>
    /\ currentIdea # Null
    /\ ~isGenerating

\* How many round trips of an operation await a given gateway call.
Awaiting(s, op, awaiting) ==
    Cardinality({i \in 1..Len(s) : s[i].op = op /\ s[i].awaiting = awaiting})

ConnectionFailed(info) == Includes(info, "API Connection Failed: ")

\* C18: a generation round trip calls the gateway for the connection test
\* first and for the idea only after that test succeeded; when the test
\* fails the idea is never requested, the round trip ends in the failure
\* step and the idea slot is as it was.  An evaluation round trip makes no
\* connection test.
C18_ConnectionTestFirst ==
    [][/\ last'.ev = "generateIssued" =>
             /\ Awaiting(inflight', "generate", "testApiConnection")
                   = Awaiting(inflight, "generate", "testApiConnection") + 1
             /\ Awaiting(inflight', "generate", "generateContent")
                   = Awaiting(inflight, "generate", "generateContent")
       /\ Awaiting(inflight', "generate", "generateContent")
             > Awaiting(inflight, "generate", "generateContent") =>
             /\ last'.ev = "connectionTested"
             /\ Awaiting(inflight', "generate", "testApiConnection")
                   = Awaiting(inflight, "generate", "testApiConnection") - 1
       /\ last'.ev = "generateSucceeded" =>
             Awaiting(inflight', "generate", "generateContent")
                 = Awaiting(inflight, "generate", "generateContent") - 1
       /\ (last'.ev = "generateFailed" /\ ConnectionFailed(debugInfo')) =>
             /\ Awaiting(inflight', "generate", "testApiConnection")
                   = Awaiting(inflight, "generate", "testApiConnection") - 1
             /\ Awaiting(inflight', "generate", "generateContent")
                   = Awaiting(inflight, "generate", "generateContent")
             /\ error' # <<>>
             /\ ~isGenerating'
             /\ UNCHANGED currentIdea
       /\ Awaiting(inflight', "evaluate", "testApiConnection") = 0]_vars

\* The connection test of a second generation failed: the idea generated
\* first is still held and the flag is cleared.
C18_Witness ==
    /\ last.ev = "generateFailed"
    /\ ConnectionFailed(debugInfo)
    /\ currentIdea # Null
    /\ ~isGenerating
    /\ error # <<>>

\* C19: in every state the panel flag is set exactly when an evaluation is
\* held, and the two are written in the same steps only: both set when an
\* evaluation succeeds, both cleared when a generation succeeds.
C19_PanelFlagTracksEvaluation ==
    /\ [](showEvaluation <=> evaluation # Null)
    /\ [][/\ last'.ev = "evaluateSucceeded" =>
                showEvaluation' /\ evaluation' # Null
          /\ last'.ev = "generateSucceeded" =>
                ~showEvaluation' /\ evaluation' = Null
          /\ last'.ev \notin {"evaluateSucceeded", "generateSucceeded"} =>
                UNCHANGED <<showEvaluation, evaluation>>]_vars

\* An evaluation succeeded while an earlier one was held: the panel flag is
\* set and the new evaluation is held.
C19_Witness ==
    /\ last.ev = "evaluateSucceeded"
    /\ last.hadEvaluation
    /\ showEvaluation
    /\ evaluation # Null

=============================================================================
